---- MODULE Spec2Model ----
(***************************************************************************)
(* Model of gpiozero/source_tools.py: the source combinators, each a       *)
(* Python generator function.  A generator object is a record holding its  *)
(* arguments, its frame-local variables and its position; one action per   *)
(* generator function models one resumption (next()) of such an object.    *)
(***************************************************************************)
EXTENDS Integers, Sequences, FiniteSets, TLC

\* ------------------------------------------------------------------ bounds
MaxLen == 3          \* longest general upstream sequence
MaxRampLen == 5      \* longest upstream of distinct elements 1..n
MaxZipLen == 2       \* longest general input of a zipping combinator
MaxInputs == 2       \* most inputs given to a zipping combinator
MaxQsize == 3        \* largest qsize
MaxPost == 1         \* pulls made on a generator after it has finished
MaxPulls == 362      \* pulls made on a generator that never finishes
MaxPairPulls == 4    \* pulls per instance when two instances interleave
MaxPairLen == 3      \* longest upstream when two instances interleave

\* ------------------------------------------------------------------ values
\* A Python number is a record [k, n, d] of value n/d (d > 0, lowest terms)
\* and kind k: "bool" (True = 1, False = 0; bool is a subclass of int),
\* "int", "frac" (fractions.Fraction, exact) or "float".  A float is a binary
\* floating-point number; every operation that gives a float rounds the
\* exact result to the nearest float, ties to even.  The interpreter's
\* floats carry 53 significant bits; the model carries MantissaBits, so that
\* its integers stay small.  "sin"/"cos" values stand for sin(radians(n))
\* and cos(radians(n)).
MantissaBits == 8    \* significant bits of a float of the model

Abs(x) == IF x < 0 THEN -x ELSE x

RECURSIVE GCD(_, _)
GCD(a, b) == IF b = 0 THEN a ELSE GCD(b, a % b)

\* the number n/d of kind k, in lowest terms
Norm(k, n, d) ==
    LET g == GCD(Abs(n), Abs(d))
        s == IF d < 0 THEN -1 ELSE 1
    IN  [k |-> k, n |-> (s * n) \div g, d |-> (s * d) \div g]

\* Fraction(n, d)
Q(n, d) == Norm("frac", n, d)

\* the int n
I(n) == [k |-> "int", n |-> n, d |-> 1]

RECURSIVE Pow2(_)
Pow2(e) == IF e = 0 THEN 1 ELSE 2 * Pow2(e - 1)

\* n/d > 0 rounded to MantissaBits significant bits, times sn/sd:
\* <<numerator, denominator>>
RECURSIVE RoundPos(_, _, _, _)
RoundPos(n, d, sn, sd) ==
    IF n >= d * Pow2(MantissaBits) THEN RoundPos(n, 2 * d, 2 * sn, sd)
    ELSE IF n < d * Pow2(MantissaBits - 1) THEN RoundPos(2 * n, d, sn, 2 * sd)
    ELSE LET m == n \div d
             r == n - m * d
             up == 2 * r > d \/ (2 * r = d /\ m % 2 = 1)
         IN  <<(IF up THEN m + 1 ELSE m) * sn, sd>>

\* the float nearest to n/d
Fl(n, d) ==
    LET x == Norm("float", n, d)
        p == RoundPos(Abs(x.n), x.d, 1, 1)
    IN  IF x.n = 0 THEN x
        ELSE Norm("float", (IF x.n < 0 THEN -1 ELSE 1) * p[1], p[2])

\* n/d as a number of kind k
Make(k, n, d) == IF k = "float" THEN Fl(n, d) ELSE Norm(k, n, d)

\* the kind of the result of a + b, a - b, a * b
Wider(a, b) ==
    IF a.k = "float" \/ b.k = "float" THEN "float"
    ELSE IF a.k = "frac" \/ b.k = "frac" THEN "frac"
    ELSE "int"

Bool(b) == [k |-> "bool", n |-> IF b THEN 1 ELSE 0, d |-> 1]

Truthy(v) == v.n # 0

Sub(a, b) == Make(Wider(a, b), a.n * b.d - b.n * a.d, a.d * b.d)

Add(a, b) == Make(Wider(a, b), a.n * b.d + b.n * a.d, a.d * b.d)

Mul(a, b) == Make(Wider(a, b), a.n * b.n, a.d * b.d)

\* true division (from __future__ import division): int / int is a float;
\* b is not zero
Div(a, b) ==
    Make(IF Wider(a, b) = "int" THEN "float" ELSE Wider(a, b),
         a.n * b.d, a.d * b.n)

Less(a, b) == a.n * b.d < b.n * a.d

NumEq(a, b) == a.n * b.d = b.n * a.d

\* Python's max(a, b) and min(a, b): the first argument wins a tie
PyMax(a, b) == IF Less(a, b) THEN b ELSE a

PyMin(a, b) == IF Less(b, a) THEN b ELSE a

\* int(v): truncation towards zero
PyInt(v) == IF v.n >= 0 THEN I(v.n \div v.d) ELSE I(-((-v.n) \div v.d))

RECURSIVE SumSeq(_)
SumSeq(s) == IF s = <<>> THEN I(0) ELSE Add(s[1], SumSeq(Tail(s)))

\* mean(v) of a non-empty tuple
mean(v) == Div(SumSeq(v), I(Len(v)))

\* faulty variant: one truthy element is enough
all_as_any(v) == Bool(\E j \in 1..Len(v) : Truthy(v[j]))

\* all(v) and any(v) of a tuple
all(v) == Bool(\A j \in 1..Len(v) : Truthy(v[j]))

any(v) == Bool(\E j \in 1..Len(v) : Truthy(v[j]))

\* ------------------------------------------------------------------ inputs
Vals == {I(-1), I(0), Q(1, 2), I(1)}

FloatVals == {Fl(1, 10), Fl(1, 2), Fl(1, 1)}

ZipVals == {Bool(FALSE), Bool(TRUE)}

Params == {I(0), Q(1, 2), I(1)}

StepsVals == {0, 1, 2, 4}

Delays == {I(-1), I(0), Fl(1, 2)}

SeqsUpTo(S, n) == UNION {[1..m -> S] : m \in 0..n}

\* a stream of exact numbers or a stream of floats
Streams(n) == SeqsUpTo(Vals, n) \cup SeqsUpTo(FloatVals, n)

Ramp(n) == [j \in 1..n |-> I(j)]

Ramps(n) == {Ramp(m) : m \in 0..n}

Tuples(S, n) == UNION {[1..m -> S] : m \in 0..n}

Ids == {1, 2}

Addrs == {1, 2}

Unary == {"negated", "inverted", "scaled", "clamped", "quantized"}

Zipping == {"conjunction", "disjunction", "averaged"}

Pacing == {"pre_delayed", "post_delayed"}

Waves == {"sin_values", "cos_values"}

\* ------------------------------------------------------------------- state
VARIABLES
    gen,      \* gen[g]: the generator object g (or the call that makes it)
    heap,     \* heap[a]: the list object at address a
    nalloc    \* number of list objects created so far

vars == <<gen, heap, nalloc>>

\* One event of a generator's history.
Ev(e, n) == [ev |-> e, n |-> n]

\* The call kind(values, ...) before it is made: the arguments and a frame
\* whose locals are unset.
Obj(kd, vs, rmin, rmax, dmin, dmax, st, qs, dl) ==
    [kind |-> kd, values |-> vs,
     range_min |-> rmin, range_max |-> rmax,
     domain_min |-> dmin, domain_max |-> dmax,
     steps |-> st, qsize |-> qs, delay |-> dl,
     pc |-> "uncalled",
     pos |-> [j \in 1..Len(vs) |-> 0],
     i |-> 0, q |-> 0,
     out |-> <<>>, res |-> "none",
     npulls |-> 0, post |-> 0, slept |-> 0, log |-> <<>>]

Z == I(0)

One == I(1)

Absent == Obj("none", <<>>, Z, One, Z, One, 0, 0, Z)

\* the streams [T,T,F] and [T,F,F]
TTF == <<Bool(TRUE), Bool(TRUE), Bool(FALSE)>>

TFF == <<Bool(TRUE), Bool(FALSE), Bool(FALSE)>>

ZipSeqs == SeqsUpTo(ZipVals, MaxZipLen) \cup {Ramp(3), Ramp(5), TTF, TFF}

QueuedSeqs == SeqsUpTo(Vals, MaxLen) \cup Ramps(MaxRampLen)

PairConfigs ==
    {Obj("queued", <<s>>, Z, One, Z, One, 0, qs, Z) :
        s \in Ramps(MaxPairLen), qs \in 0..2}
    \cup {Obj("sin_values", <<>>, Z, One, Z, One, 0, 0, Z)}

\* one call c is about to be made
Single(c) == gen = [g \in Ids |-> IF g = 1 THEN c ELSE Absent]

InitUnary ==
    \E s \in Streams(MaxLen) :
        \/ \E kd \in {"negated", "inverted"} :
               Single(Obj(kd, <<s>>, Z, One, Z, One, 0, 0, Z))
        \/ \E p \in [1..4 -> Params] :
               Single(Obj("scaled", <<s>>, p[1], p[2], p[3], p[4], 0, 0, Z))
        \/ \E p \in [1..2 -> Params] :
               Single(Obj("clamped", <<s>>, p[1], p[2], Z, One, 0, 0, Z))
        \/ \E p \in [1..2 -> Params], st \in StepsVals :
               Single(Obj("quantized", <<s>>, p[1], p[2], Z, One, st, 0, Z))

\* quantized to as many steps as the range is wide, over whole numbers of
\* the range
FineSteps == 39

FineVals == {I(0), I(31), I(FineSteps)}

InitFine ==
    \E s \in SeqsUpTo(FineVals, MaxLen) :
        Single(Obj("quantized", <<s>>, I(0), I(FineSteps), Z, One,
                   FineSteps, 0, Z))

InitPipeline ==
    \E s \in Streams(MaxLen) :
        Single(Obj("inverted_inverted", <<s>>, Z, One, Z, One, 0, 0, Z))

InitZipping ==
    \E kd \in Zipping, vs \in Tuples(ZipSeqs, MaxInputs) :
        Single(Obj(kd, vs, Z, One, Z, One, 0, 0, Z))

InitPacing ==
    \E kd \in Pacing, s \in SeqsUpTo(Vals, MaxLen), dl \in Delays :
        Single(Obj(kd, <<s>>, Z, One, Z, One, 0, 0, dl))

InitQueued ==
    \E s \in QueuedSeqs, qs \in (-1)..MaxQsize :
        Single(Obj("queued", <<s>>, Z, One, Z, One, 0, qs, Z))

InitWaves ==
    \E kd \in Waves : Single(Obj(kd, <<>>, Z, One, Z, One, 0, 0, Z))

Init ==
    /\ \/ InitUnary \/ InitFine \/ InitPipeline \/ InitZipping
       \/ InitPacing \/ InitQueued \/ InitWaves
    /\ heap = [a \in Addrs |-> <<>>]
    /\ nalloc = 0

InitPair ==
    /\ gen \in [Ids -> PairConfigs]
    /\ heap = [a \in Addrs |-> <<>>]
    /\ nalloc = 0

\* --------------------------------------------------- generator machinery
\* Calling a generator function runs none of its body: it returns a
\* generator object suspended before the first statement.
Call(g) ==
    /\ gen[g].kind # "none"
    /\ gen[g].pc = "uncalled"
    /\ gen' = [gen EXCEPT ![g] = [@ EXCEPT !.pc = "start", !.res = "generator"]]
    /\ UNCHANGED <<heap, nalloc>>

\* A pull may be made on generator g.
CanPull(g) ==
    /\ gen[g].pc # "uncalled"
    /\ IF gen[g].pc = "done" THEN gen[g].post < MaxPost
                             ELSE gen[g].npulls < MaxPulls

\* next(gen) entered: the consumer's pull is recorded.
Enter(r) ==
    [r EXCEPT !.npulls = @ + 1, !.log = Append(@, Ev("next", 0)),
              !.post = IF r.pc = "done" THEN @ + 1 ELSE @]

\* faulty variant: the last element of an input is taken for its end
HasNextEarly(r, j) == r.pos[j] + 1 < Len(r.values[j])

\* Input j of r still has an element.
HasNext(r, j) == r.pos[j] < Len(r.values[j])

\* The element next(it) returns for input j.
Peek(r, j) == r.values[j][r.pos[j] + 1]

\* next(it) on input j returned an element.
Took(r, j) ==
    [r EXCEPT !.pos[j] = @ + 1, !.log = Append(@, Ev("up", j))]

\* next(it) on input j raised StopIteration.
Missed(r, j) == [r EXCEPT !.log = Append(@, Ev("end", j))]

\* yield v
Yield(r, v) ==
    [r EXCEPT !.pc = "yielded", !.res = "yield", !.out = Append(@, v),
              !.log = Append(@, Ev("yield", 0))]

\* the generator body returns, or next() is called on a finished generator:
\* the consumer sees StopIteration
Return(r) ==
    [r EXCEPT !.pc = "done", !.res = "StopIteration",
              !.log = Append(@, Ev("stop", 0))]

\* an exception leaves the generator body: the generator is finished
Raise(r, exc) ==
    [r EXCEPT !.pc = "done", !.res = exc, !.log = Append(@, Ev("raise", 0))]

\* ------------------------------------------------------- unary transforms
\* for v in values: yield f(v)   -- one resumption, f given as the result
\* of the loop body on the element pulled
negated(g) ==
    /\ gen[g].kind = "negated"
    /\ CanPull(g)
    /\ LET r == Enter(gen[g]) IN
       gen' = [gen EXCEPT ![g] =
           IF gen[g].pc = "done" THEN Return(r)
           ELSE IF HasNext(r, 1)
                THEN Yield(Took(r, 1), Bool(~Truthy(Peek(r, 1))))
                ELSE Return(Missed(r, 1))]
    /\ UNCHANGED <<heap, nalloc>>

\* faulty variant: v - 1
inverted_item_reversed(v) == Sub(v, One)

\* 1 - v
inverted_item(v) == Sub(One, v)

inverted(g) ==
    /\ gen[g].kind = "inverted"
    /\ CanPull(g)
    /\ LET r == Enter(gen[g]) IN
       gen' = [gen EXCEPT ![g] =
           IF gen[g].pc = "done" THEN Return(r)
           ELSE IF HasNext(r, 1)
                THEN Yield(Took(r, 1), inverted_item(Peek(r, 1)))
                ELSE Return(Missed(r, 1))]
    /\ UNCHANGED <<heap, nalloc>>

\* The pipeline inverted(inverted(values)): a pull of the outer generator
\* pulls the inner one, which pulls values; the outer generator inverts what
\* the inner one yields and ends when the inner one ends.
inverted_inverted(g) ==
    /\ gen[g].kind = "inverted_inverted"
    /\ CanPull(g)
    /\ LET r == Enter(gen[g]) IN
       gen' = [gen EXCEPT ![g] =
           IF gen[g].pc = "done" THEN Return(r)
           ELSE IF HasNext(r, 1)
                THEN Yield(Took(r, 1), inverted_item(inverted_item(Peek(r, 1))))
                ELSE Return(Missed(r, 1))]
    /\ UNCHANGED <<heap, nalloc>>

\* the expression scaled yields for element v (lines 76-79); undefined when
\* domain_max = domain_min
scaled_item(v, range_min, range_max, domain_min, domain_max) ==
    LET domain_size == Sub(domain_max, domain_min)
        range_size == Sub(range_max, range_min)
    IN  Add(Mul(Div(Sub(v, domain_min), domain_size), range_size), range_min)

\* (v - domain_min) / domain_size raises ZeroDivisionError
scaled_raises(domain_min, domain_max) == Sub(domain_max, domain_min).n = 0

scaled(g) ==
    /\ gen[g].kind = "scaled"
    /\ CanPull(g)
    /\ LET r == Enter(gen[g]) IN
       gen' = [gen EXCEPT ![g] =
           IF gen[g].pc = "done" THEN Return(r)
           ELSE IF ~HasNext(r, 1) THEN Return(Missed(r, 1))
           ELSE IF scaled_raises(r.domain_min, r.domain_max)
                THEN Raise(Took(r, 1), "ZeroDivisionError")
                ELSE Yield(Took(r, 1),
                           scaled_item(Peek(r, 1), r.range_min, r.range_max,
                                       r.domain_min, r.domain_max))]
    /\ UNCHANGED <<heap, nalloc>>

\* min(max(v, range_min), range_max)
\* faulty variant: max(min(v, range_min), range_max)
clamped_item_swapped(v, range_min, range_max) ==
    PyMax(PyMin(v, range_min), range_max)

clamped_item(v, range_min, range_max) == PyMin(PyMax(v, range_min), range_max)

clamped(g) ==
    /\ gen[g].kind = "clamped"
    /\ CanPull(g)
    /\ LET r == Enter(gen[g]) IN
       gen' = [gen EXCEPT ![g] =
           IF gen[g].pc = "done" THEN Return(r)
           ELSE IF HasNext(r, 1)
                THEN Yield(Took(r, 1),
                           clamped_item(Peek(r, 1), r.range_min, r.range_max))
                ELSE Return(Missed(r, 1))]
    /\ UNCHANGED <<heap, nalloc>>

\* the expression quantized yields for element v of the inner
\* scaled(values, 0, 1, range_min, range_max) (line 120); steps is not zero
quantized_item(v, steps, range_min, range_max) ==
    LET range_size == Sub(range_max, range_min)
        st == I(steps)
    IN  Add(Mul(Div(PyInt(Mul(v, st)), st), range_size), range_min)

\* The inner scaled generator is pulled once per resumption; an exception it
\* raises passes through quantized.
quantized(g) ==
    /\ gen[g].kind = "quantized"
    /\ CanPull(g)
    /\ LET r == Enter(gen[g]) IN
       gen' = [gen EXCEPT ![g] =
           IF gen[g].pc = "done" THEN Return(r)
           ELSE IF ~HasNext(r, 1) THEN Return(Missed(r, 1))
           ELSE IF scaled_raises(r.range_min, r.range_max)
                   \/ r.steps = 0
                THEN Raise(Took(r, 1), "ZeroDivisionError")
                ELSE Yield(Took(r, 1),
                           quantized_item(
                               scaled_item(Peek(r, 1), Z, One,
                                           r.range_min, r.range_max),
                               r.steps, r.range_min, r.range_max))]
    /\ UNCHANGED <<heap, nalloc>>

\* ------------------------------------------------- zipping combinators
\* One step of zip(*values): the inputs are pulled in argument order; the
\* first exhausted input ends the step.  Returns the index of the first
\* exhausted input, or 0 when every input gave an element (with no inputs
\* zip is exhausted at once).
RECURSIVE FirstEnded(_, _)
FirstEnded(r, j) ==
    IF j > Len(r.values) THEN 0
    ELSE IF HasNext(r, j) THEN FirstEnded(r, j + 1) ELSE j

\* r after inputs j..upto have each given one element
RECURSIVE TookRange(_, _, _)
TookRange(r, j, upto) ==
    IF j > upto THEN r ELSE TookRange(Took(r, j), j + 1, upto)

\* zip stops at input number e
\* faulty variant: the inputs before the exhausted one are not pulled
zip_stop_unpulled(r, e) == Missed(r, e)

zip_stop(r, e) == Missed(TookRange(r, 1, e - 1), e)

\* the tuple zip(*values) gives in this step
zip_tuple(r) == [j \in 1..Len(r.values) |-> Peek(r, j)]

\* for v in zip(*values): yield f(v)   -- f(v) given as fv
zip_step(r, fv) ==
    LET e == FirstEnded(r, 1) IN
    IF Len(r.values) = 0 THEN Return(r)
    ELSE IF e = 0 THEN Yield(TookRange(r, 1, Len(r.values)), fv)
    ELSE Return(zip_stop(r, e))

conjunction(g) ==
    /\ gen[g].kind = "conjunction"
    /\ CanPull(g)
    /\ LET r == Enter(gen[g]) IN
       gen' = [gen EXCEPT ![g] =
           IF gen[g].pc = "done" THEN Return(r)
           ELSE zip_step(r, all(zip_tuple(r)))]
    /\ UNCHANGED <<heap, nalloc>>

disjunction(g) ==
    /\ gen[g].kind = "disjunction"
    /\ CanPull(g)
    /\ LET r == Enter(gen[g]) IN
       gen' = [gen EXCEPT ![g] =
           IF gen[g].pc = "done" THEN Return(r)
           ELSE zip_step(r, any(zip_tuple(r)))]
    /\ UNCHANGED <<heap, nalloc>>

averaged(g) ==
    /\ gen[g].kind = "averaged"
    /\ CanPull(g)
    /\ LET r == Enter(gen[g]) IN
       gen' = [gen EXCEPT ![g] =
           IF gen[g].pc = "done" THEN Return(r)
           ELSE zip_step(r, mean(zip_tuple(r)))]
    /\ UNCHANGED <<heap, nalloc>>

\* --------------------------------------------------------------- queued
\* faulty variant: every call uses the same list object
AllocShared(n) == 1

\* q = []: a new list object, distinct from every list made before
Alloc(n) == n + 1

\* faulty variant: the fill loop runs once more than qsize
FillCountExtra(n, qsize) ==
    IF qsize + 1 <= n THEN (IF qsize < 0 THEN 0 ELSE qsize + 1) ELSE n

\* for i in range(qsize): q.append(next(it)) -- the number of elements the
\* fill takes from an upstream of n elements
FillCount(n, qsize) == IF qsize <= n THEN (IF qsize < 0 THEN 0 ELSE qsize) ELSE n

\* the exception the consumer sees when next(it) raises StopIteration in the
\* fill loop, outside any try: RuntimeError where the interpreter turns a
\* StopIteration raised inside a generator body into RuntimeError (PEP 479,
\* Python >= 3.7), StopIteration itself on older interpreters
FillUnderflow(p) == IF p THEN "RuntimeError" ELSE "StopIteration"

\* faulty variant: the slot index is never advanced
CycleStuck(i, n) == i

\* i advanced by cycle(range(qsize))
CycleNext(i, n) == (i + 1) % n

\* faulty variant: the refill is stored in the slot after slot i
setitem_next(qa, i, v) == [qa EXCEPT ![((i + 1) % Len(qa)) + 1] = v]

\* q[i] = v, for 0 <= i < len(q)
setitem(qa, i, v) == [qa EXCEPT ![i + 1] = v]

queued(g) ==
    /\ gen[g].kind = "queued"
    /\ CanPull(g)
    /\ \E pep479 \in BOOLEAN :
       LET r == Enter(gen[g])
           n == Len(r.values[1])
           c == FillCount(n, r.qsize)
           a == Alloc(nalloc)
           filled == [r EXCEPT
                         !.q = a, !.pos[1] = c,
                         !.log = @ \o [j \in 1..c |-> Ev("up", 1)]]
           qa == heap[r.q]
           j == CycleNext(r.i, r.qsize)
       IN
       IF gen[g].pc = "done"
       THEN /\ gen' = [gen EXCEPT ![g] = Return(r)]
            /\ UNCHANGED <<heap, nalloc>>
       ELSE IF gen[g].pc = "start"
       THEN /\ nalloc' = nalloc + 1
            /\ heap' = [heap EXCEPT ![a] = SubSeq(r.values[1], 1, c)]
            /\ gen' = [gen EXCEPT ![g] =
                   IF r.qsize > n
                   THEN Raise(Missed(filled, 1), FillUnderflow(pep479))
                   ELSE IF r.qsize <= 0 THEN Return(filled)
                   ELSE Yield(filled, r.values[1][1])]
       ELSE IF ~HasNext(r, 1)
       THEN /\ gen' = [gen EXCEPT ![g] = Return(Missed(r, 1))]
            /\ UNCHANGED <<heap, nalloc>>
       ELSE IF r.i + 1 > Len(qa)
       THEN /\ gen' = [gen EXCEPT ![g] = Raise(Took(r, 1), "IndexError")]
            /\ UNCHANGED <<heap, nalloc>>
       ELSE /\ heap' = [heap EXCEPT ![r.q] = setitem(qa, r.i, Peek(r, 1))]
            /\ gen' = [gen EXCEPT ![g] =
                   IF j + 1 > Len(qa)
                   THEN Raise([Took(r, 1) EXCEPT !.i = j], "IndexError")
                   ELSE Yield([Took(r, 1) EXCEPT !.i = j], heap'[r.q][j + 1])]
            /\ UNCHANGED nalloc

\* --------------------------------------------------------------- pacing
\* sleep(delay) raises for a negative delay
sleep_raises(delay) == delay.n < 0

\* sleep(delay) returned
\* faulty variant: sleep(delay) is called twice
SleptTwice(r) ==
    [r EXCEPT !.slept = @ + 2,
              !.log = Append(Append(@, Ev("sleep", 0)), Ev("sleep", 0))]

Slept(r) == [r EXCEPT !.slept = @ + 1, !.log = Append(@, Ev("sleep", 0))]

\* faulty variant: yield delay instead of yield v
pre_delayed_yields_delay(g) ==
    /\ gen[g].kind = "pre_delayed"
    /\ CanPull(g)
    /\ LET r == Enter(gen[g]) IN
       gen' = [gen EXCEPT ![g] =
           IF gen[g].pc = "done" THEN Return(r)
           ELSE IF ~HasNext(r, 1) THEN Return(Missed(r, 1))
           ELSE IF sleep_raises(r.delay)
                THEN Raise(Took(r, 1), "ValueError")
                ELSE Yield(Slept(Took(r, 1)), r.delay)]
    /\ UNCHANGED <<heap, nalloc>>

pre_delayed(g) ==
    /\ gen[g].kind = "pre_delayed"
    /\ CanPull(g)
    /\ LET r == Enter(gen[g]) IN
       gen' = [gen EXCEPT ![g] =
           IF gen[g].pc = "done" THEN Return(r)
           ELSE IF ~HasNext(r, 1) THEN Return(Missed(r, 1))
           ELSE IF sleep_raises(r.delay)
                THEN Raise(Took(r, 1), "ValueError")
                ELSE Yield(Slept(Took(r, 1)), Peek(r, 1))]
    /\ UNCHANGED <<heap, nalloc>>

post_delayed(g) ==
    /\ gen[g].kind = "post_delayed"
    /\ CanPull(g)
    /\ LET r == Enter(gen[g])
           s == IF gen[g].pc = "yielded" THEN Slept(r) ELSE r
       IN
       gen' = [gen EXCEPT ![g] =
           IF gen[g].pc = "done" THEN Return(r)
           ELSE IF gen[g].pc = "yielded" /\ sleep_raises(r.delay)
                THEN Raise(r, "ValueError")
           ELSE IF HasNext(s, 1) THEN Yield(Took(s, 1), Peek(s, 1))
           ELSE Return(Missed(s, 1))]
    /\ UNCHANGED <<heap, nalloc>>

\* ------------------------------------------------------------ generators
Degrees == 360

\* sin(radians(d)) and cos(radians(d)), kept symbolic
Wave(f, d) == [k |-> f, n |-> d, d |-> 1]

\* faulty variant: the degree counter is not wrapped
sin_values_unwrapped(g) ==
    /\ gen[g].kind = "sin_values"
    /\ CanPull(g)
    /\ LET r == Enter(gen[g]) IN
       gen' = [gen EXCEPT ![g] =
           Yield([r EXCEPT !.i = r.i + 1], Wave("sin", r.i))]
    /\ UNCHANGED <<heap, nalloc>>

sin_values(g) ==
    /\ gen[g].kind = "sin_values"
    /\ CanPull(g)
    /\ LET r == Enter(gen[g]) IN
       gen' = [gen EXCEPT ![g] =
           Yield([r EXCEPT !.i = CycleNext(r.i, Degrees)], Wave("sin", r.i))]
    /\ UNCHANGED <<heap, nalloc>>

cos_values(g) ==
    /\ gen[g].kind = "cos_values"
    /\ CanPull(g)
    /\ LET r == Enter(gen[g]) IN
       gen' = [gen EXCEPT ![g] =
           Yield([r EXCEPT !.i = CycleNext(r.i, Degrees)], Wave("cos", r.i))]
    /\ UNCHANGED <<heap, nalloc>>

\* ------------------------------------------------------- specifications
Next ==
    \E g \in Ids :
        \/ Call(g)
        \/ negated(g) \/ inverted(g) \/ scaled(g) \/ clamped(g)
        \/ quantized(g)
        \/ inverted_inverted(g)
        \/ conjunction(g) \/ disjunction(g) \/ averaged(g)
        \/ queued(g)
        \/ pre_delayed(g) \/ post_delayed(g)
        \/ sin_values(g) \/ cos_values(g)

Spec == Init /\ [][Next]_vars

\* Two instances built by separate calls, pulled in any interleaving.
NextPair ==
    \E g \in Ids :
        \/ Call(g)
        \/ gen[g].npulls < MaxPairPulls /\ queued(g)
        \/ gen[g].npulls < MaxPairPulls /\ sin_values(g)

SpecPair == InitPair /\ [][NextPair]_vars

\* ------------------------------------------------------- history helpers
\* number of events e among the first upto entries of log
CountEv(log, e, upto) == Cardinality({x \in 1..upto : log[x].ev = e})

\* position in log of the m-th element taken from input 1
UpIdx(log, m) ==
    CHOOSE x \in 1..Len(log) :
        /\ log[x] = Ev("up", 1)
        /\ Cardinality({y \in 1..x : log[y] = Ev("up", 1)}) = m

\* the number of the output pull during which the m-th upstream element was
\* taken from upstream
FetchPull(r, m) == CountEv(r.log, "next", UpIdx(r.log, m))

Called(r) == r.kind # "none" /\ r.pc # "uncalled"

\* the call itself raised: no generator object was handed out
CallFailed(r) == r.pc = "done" /\ r.npulls = 0 /\ r.res \notin {"none", "generator", "yield", "StopIteration"}

\* --------------------------------------------------------------- claims

\* C1: for 1 <= qsize <= n, queued yields exactly the first n - qsize + 1
\* upstream elements in upstream order, one per pull, and then exhaustion on
\* the first failed refill; the last qsize - 1 buffered elements are never
\* yielded.
C1_QueuedYieldsAllButLast ==
    \A g \in Ids :
        LET r == gen[g]
            n == Len(r.values[1])
        IN  (r.kind = "queued" /\ 1 <= r.qsize /\ r.qsize <= n
                /\ r.pc \in {"yielded", "done"}) =>
            /\ r.out = SubSeq(r.values[1], 1, Len(r.out))
            /\ Len(r.out) <= n - r.qsize + 1
            /\ r.pc = "yielded" => Len(r.out) = r.npulls
            /\ r.pc = "done" =>
                /\ Len(r.out) = n - r.qsize + 1
                /\ r.res = "StopIteration"
                /\ r.npulls - r.post = n - r.qsize + 2
                /\ CountEv(r.log, "end", Len(r.log)) = 1

C1_Witness ==
    \E g \in Ids :
        /\ gen[g].kind = "queued" /\ gen[g].qsize = 2
        /\ gen[g].values[1] = Ramp(5)
        /\ gen[g].pc = "done"
        /\ gen[g].out = Ramp(4)

\* C2 (as claimed): when the upstream has fewer than qsize elements the call
\* queued(values, qsize) itself fails with a hard error, before any pull,
\* and the failure is never seen as ordinary exhaustion.
C2_UnderflowFailsAtConstruction ==
    \A g \in Ids :
        LET r == gen[g] IN
        (r.kind = "queued" /\ Len(r.values[1]) < r.qsize /\ Called(r)) =>
            /\ CallFailed(r)
            /\ r.res # "StopIteration"

MinLen(vs) ==
    CHOOSE m \in {Len(vs[j]) : j \in 1..Len(vs)} :
        \A j \in 1..Len(vs) : m <= Len(vs[j])

\* C4: with N >= 1 inputs a zipping combinator yields one element per pull
\* while every input still has one, and ends at the first pull in which an
\* input is exhausted: exactly min(lengths) outputs.
C4_ZipStopsAtShortest ==
    \A g \in Ids :
        LET r == gen[g] IN
        (r.kind \in Zipping /\ Len(r.values) >= 1 /\ Called(r)) =>
            /\ Len(r.out) <= MinLen(r.values)
            /\ r.pc # "done" => Len(r.out) = r.npulls
            /\ r.pc = "done" =>
                /\ Len(r.out) = MinLen(r.values)
                /\ r.res = "StopIteration"
                /\ r.npulls - r.post = MinLen(r.values) + 1

C4_Witness ==
    \E g \in Ids :
        /\ gen[g].kind \in Zipping
        /\ gen[g].values = <<Ramp(3), Ramp(5)>>
        /\ gen[g].pc = "done"
        /\ Len(gen[g].out) = 3

\* C5 (as claimed): calling conjunction, disjunction or averaged with no
\* input fails with an error at the call; no sequence is produced.
C5_ZeroInputsRejected ==
    \A g \in Ids :
        LET r == gen[g] IN
        (r.kind \in Zipping /\ Len(r.values) = 0 /\ Called(r)) =>
            CallFailed(r)

\* C6 (as claimed): queued with qsize <= 0 fails when it is called; it never
\* gives a (degenerate, empty) output sequence.
C6_NonPositiveQsizeRejected ==
    \A g \in Ids :
        LET r == gen[g] IN
        (r.kind = "queued" /\ r.qsize <= 0 /\ Called(r)) =>
            /\ CallFailed(r)
            /\ ~(r.res = "StopIteration" /\ r.out = <<>>)

\* the element a unary transform yields for upstream element v
UnaryItem(r, v) ==
    CASE r.kind = "negated" -> Bool(~Truthy(v))
      [] r.kind = "inverted" -> Sub(One, v)
      [] r.kind = "scaled" ->
            scaled_item(v, r.range_min, r.range_max, r.domain_min, r.domain_max)
      [] r.kind = "clamped" -> clamped_item(v, r.range_min, r.range_max)
      [] r.kind = "quantized" ->
            quantized_item(scaled_item(v, Z, One, r.range_min, r.range_max),
                           r.steps, r.range_min, r.range_max)

\* C7 (as claimed): a unary transform pulls upstream once per pull of its
\* output, every element it pulls gives the output of the same position,
\* and its output signals exhaustion exactly when its upstream has signalled
\* exhaustion.
C7_UnaryLazyOneToOne ==
    \A g \in Ids :
        LET r == gen[g]
            L == Len(r.log)
        IN
        (r.kind \in Unary /\ Called(r)) =>
            /\ CountEv(r.log, "up", L) + CountEv(r.log, "end", L)
                   = r.npulls - r.post
            /\ r.pos[1] = Len(r.out)
            /\ \A k \in 1..Len(r.out) :
                   r.out[k] = UnaryItem(r, r.values[1][k])
            /\ r.res = "StopIteration" <=> CountEv(r.log, "end", L) = 1

\* C8: for a delay >= 0, pre_delayed and post_delayed yield the upstream's
\* elements unchanged, in order, one per pull, and signal exhaustion exactly
\* when the upstream has signalled exhaustion.
C8_DelayedPreservesStream ==
    \A g \in Ids :
        LET r == gen[g]
            L == Len(r.log)
        IN
        (r.kind \in Pacing /\ r.delay.n >= 0 /\ Called(r)) =>
            /\ r.out = SubSeq(r.values[1], 1, Len(r.out))
            /\ r.pos[1] = Len(r.out)
            /\ r.pc # "done" => Len(r.out) = r.npulls
            /\ r.pc = "done" => r.out = r.values[1]
            /\ r.res = "StopIteration" <=> CountEv(r.log, "end", L) = 1
            /\ r.res \in {"generator", "yield", "StopIteration"}

C8_Witness ==
    \E g \in Ids :
        /\ gen[g].kind = "pre_delayed"
        /\ gen[g].delay = Fl(1, 2)
        /\ gen[g].values[1] = <<I(1), I(0), I(-1)>>
        /\ gen[g].out = gen[g].values[1]
        /\ gen[g].slept = 3
        /\ gen[g].res = "StopIteration"

\* C9: the k-th output of conjunction is True exactly when the k-th elements
\* of all inputs are truthy; the k-th output of disjunction is True exactly
\* when the k-th element of at least one input is truthy.
C9_ConjunctionDisjunctionValues ==
    \A g \in Ids :
        LET r == gen[g]
            N == Len(r.values)
        IN
        /\ r.kind = "conjunction" =>
               \A k \in 1..Len(r.out) :
                   /\ r.out[k].k = "bool"
                   /\ r.out[k].n = 1 <=> \A j \in 1..N : r.values[j][k].n # 0
        /\ r.kind = "disjunction" =>
               \A k \in 1..Len(r.out) :
                   /\ r.out[k].k = "bool"
                   /\ r.out[k].n = 1 <=> \E j \in 1..N : r.values[j][k].n # 0

C9_Witness ==
    \E g \in Ids :
        /\ gen[g].kind = "conjunction"
        /\ gen[g].values = <<TTF, TFF>>
        /\ gen[g].out = TFF

\* the upstream element the ring holds in slot s (counted from 0) once pos
\* elements have been taken: the latest element whose number is s mod qsize
RingSlot(r, s) ==
    LET js == {j \in 1..r.pos[1] : (j - 1) % r.qsize = s}
        j == CHOOSE x \in js : \A y \in js : y <= x
    IN  r.values[1][j]

\* what instance r yields when it is pulled alone, as far as it has got
SoloState(r) ==
    /\ r.kind = "queued" =>
        /\ r.out = SubSeq(r.values[1], 1, Len(r.out))
        /\ r.pc = "yielded" =>
            /\ Len(r.out) = r.npulls
            /\ r.pos[1] = r.qsize + r.npulls - 1
            /\ r.i = (r.npulls - 1) % r.qsize
            /\ heap[r.q] = [s \in 1..r.qsize |-> RingSlot(r, s - 1)]
        /\ (r.pc = "done" /\ 1 <= r.qsize /\ r.qsize <= Len(r.values[1])) =>
            Len(r.out) = Len(r.values[1]) - r.qsize + 1
    /\ r.kind = "sin_values" =>
        /\ r.out = [k \in 1..r.npulls |-> Wave("sin", (k - 1) % Degrees)]
        /\ r.i = r.npulls % Degrees

\* a step of instance g leaves instance h and its buffer as they were
Untouched(g, h) ==
    gen'[g] # gen[g] =>
        /\ gen'[h] = gen[h]
        /\ gen[h].q # 0 => heap'[gen[h].q] = heap[gen[h].q]

\* C10: two instances built by separate calls over separate upstreams share
\* no state: under every interleaving each yields what it yields alone, and
\* a pull on one changes neither the buffer, the phase counter nor the
\* upstream position of the other.
C10_InstancesIndependent ==
    [][/\ (\A g \in Ids : SoloState(gen[g]))'
       /\ \A g, h \in Ids : g # h => Untouched(g, h)]_vars

C10_Witness ==
    /\ gen[1].kind = "queued" /\ gen[2].kind = "queued"
    /\ gen[1].npulls >= 2 /\ gen[2].npulls >= 2
    /\ gen[1].pc = "yielded" /\ gen[2].pc = "yielded"
    /\ gen[1].q # gen[2].q

\* C11 (as claimed): scaled with domain_max = domain_min, and quantized with
\* range_max = range_min, fail when they are called, whatever the upstream
\* holds and however often the output is pulled.
C11_ZeroWidthFailsAtConstruction ==
    \A g \in Ids :
        LET r == gen[g] IN
        (/\ \/ r.kind = "scaled" /\ scaled_raises(r.domain_min, r.domain_max)
            \/ r.kind = "quantized" /\ scaled_raises(r.range_min, r.range_max)
         /\ Called(r)) =>
            CallFailed(r)

\* C12: for range_min <= range_max clamped yields, for every element v, a
\* value within [range_min, range_max]: v itself when v is inside, range_min
\* when v is below, range_max when v is above.
C12_ClampedWithinRange ==
    \A g \in Ids :
        LET r == gen[g] IN
        (r.kind = "clamped" /\ ~Less(r.range_max, r.range_min)) =>
            \A k \in 1..Len(r.out) :
                LET v == r.values[1][k]
                    o == r.out[k]
                IN  /\ ~Less(o, r.range_min) /\ ~Less(r.range_max, o)
                    /\ Less(v, r.range_min) => o = r.range_min
                    /\ Less(r.range_max, v) => o = r.range_max
                    /\ (~Less(v, r.range_min) /\ ~Less(r.range_max, v)) => o = v

C12_Witness ==
    \E g \in Ids :
        /\ gen[g].kind = "clamped"
        /\ gen[g].range_min = I(0) /\ gen[g].range_max = Q(1, 2)
        /\ gen[g].values[1] = <<I(-1), I(0), I(1)>>
        /\ gen[g].out = <<I(0), I(0), Q(1, 2)>>

\* the real number 1 - v
OneMinus(v) == Norm("frac", v.d - v.n, v.d)

\* the subtraction 1 - v is exact: its result is the real number 1 - v
InvertsExactly(v) == NumEq(inverted_item(v), OneMinus(v))

\* the pipeline has handed on every element it took, in order, and has
\* ended only when its upstream ended
PipelineKeepsPace(r) ==
    /\ Len(r.out) = r.pos[1]
    /\ Len(r.out) <= Len(r.values[1])
    /\ r.pc = "done" => Len(r.out) = Len(r.values[1]) /\ r.res = "StopIteration"

\* C14 (as claimed): inverted(inverted(xs)) yields exactly the elements of
\* xs, in order and with the same length, for every input sequence xs, and
\* the k-th output of inverted(xs) is 1 minus the k-th element of xs.
C14_InvertedIsInvolution ==
    \A g \in Ids :
        LET r == gen[g] IN
        /\ r.kind = "inverted_inverted" =>
            /\ PipelineKeepsPace(r)
            /\ \A k \in 1..Len(r.out) : NumEq(r.out[k], r.values[1][k])
        /\ r.kind = "inverted" =>
            \A k \in 1..Len(r.out) : r.out[k] = inverted_item(r.values[1][k])

\* C14 (amended): inverted(inverted(xs)) has the length and order of xs and
\* its k-th output is 1 - (1 - x) computed in the arithmetic of the k-th
\* element x; that output equals x whenever the subtraction 1 - x is exact
\* (every bool, int and Fraction, and the floats for which 1 - x does not
\* round).  The k-th output of inverted(xs) is the result of 1 - x.
C14_InvertedIsInvolutionWhenExact ==
    \A g \in Ids :
        LET r == gen[g] IN
        /\ r.kind = "inverted_inverted" =>
            /\ PipelineKeepsPace(r)
            /\ \A k \in 1..Len(r.out) :
                LET x == r.values[1][k] IN
                /\ r.out[k] = inverted_item(inverted_item(x))
                /\ InvertsExactly(x) => NumEq(r.out[k], x)
        /\ r.kind = "inverted" =>
            \A k \in 1..Len(r.out) :
                LET x == r.values[1][k] IN
                /\ r.out[k] = inverted_item(x)
                /\ InvertsExactly(x) => NumEq(r.out[k], OneMinus(x))

C14_Witness ==
    \E g \in Ids :
        /\ gen[g].kind = "inverted_inverted"
        /\ gen[g].values[1] = <<Fl(1, 2), Fl(1, 10), Fl(1, 1)>>
        /\ gen[g].pc = "done"
        /\ Len(gen[g].out) = 3
        /\ gen[g].out[1] = Fl(1, 2) /\ gen[g].out[3] = Fl(1, 1)
        /\ ~NumEq(gen[g].out[2], Fl(1, 10))

\* the real number range_min + (floor(((v - range_min) / (range_max -
\* range_min)) * steps) / steps) * (range_max - range_min), for
\* range_min <= v and range_min < range_max
Level(v, steps, range_min, range_max) ==
    LET num == (v.n * range_min.d - range_min.n * v.d)
                   * steps * range_max.d * range_min.d
        den == v.d * range_min.d
                   * (range_max.n * range_min.d - range_min.n * range_max.d)
        fl == Norm("frac", num \div den, steps)
        size == Norm("frac", range_max.n * range_min.d - range_min.n * range_max.d,
                     range_max.d * range_min.d)
        part == Norm("frac", fl.n * size.n, fl.d * size.d)
    IN  Norm("frac", range_min.n * part.d + part.n * range_min.d,
             range_min.d * part.d)

\* C13 (as claimed): for steps >= 1, range_min < range_max and v within the
\* range, quantized yields the level range_min + (floor(((v - range_min) /
\* (range_max - range_min)) * steps) / steps) * (range_max - range_min): it
\* is never above v and never outside the range, v = range_max yields
\* exactly range_max and v = range_min yields exactly range_min.
C13_QuantizedFloorsToLevel ==
    \A g \in Ids :
        LET r == gen[g] IN
        (r.kind = "quantized" /\ r.steps >= 1
            /\ Less(r.range_min, r.range_max)) =>
            \A k \in 1..Len(r.out) :
                LET v == r.values[1][k]
                    o == r.out[k]
                IN  (~Less(v, r.range_min) /\ ~Less(r.range_max, v)) =>
                    /\ NumEq(o, Level(v, r.steps, r.range_min, r.range_max))
                    /\ ~Less(v, o)
                    /\ ~Less(o, r.range_min) /\ ~Less(r.range_max, o)
                    /\ NumEq(v, r.range_max) => NumEq(o, r.range_max)
                    /\ NumEq(v, r.range_min) => NumEq(o, r.range_min)

\* position in log of the first value handed to the consumer, 0 if none
FirstYield(log) ==
    LET ys == {x \in 1..Len(log) : log[x].ev = "yield"} IN
    IF ys = {} THEN 0 ELSE CHOOSE x \in ys : \A y \in ys : x <= y

\* C15 (as claimed): queued pulls exactly qsize elements from upstream
\* before it yields its first value, and in every reachable state the number
\* of elements pulled from upstream minus the number yielded is at most
\* qsize: exactly qsize + k - 1 elements have been pulled when the k-th
\* value is yielded.
C15_QueuedPullAccounting ==
    \A g \in Ids :
        LET r == gen[g] IN
        (r.kind = "queued" /\ Called(r)) =>
            /\ r.pos[1] - Len(r.out) <= r.qsize
            /\ FirstYield(r.log) # 0 =>
                CountEv(r.log, "up", FirstYield(r.log)) = r.qsize
            /\ r.pc = "yielded" => r.pos[1] = r.qsize + Len(r.out) - 1

\* the ring of a suspended queued generator: qsize slots, slot s holding the
\* latest upstream element whose number (from 0) is s modulo qsize
Ring(r) ==
    (r.kind = "queued" /\ r.pc = "yielded") =>
        /\ Len(heap[r.q]) = r.qsize
        /\ r.i \in 0..(r.qsize - 1)
        /\ \A s \in 0..(r.qsize - 1) : heap[r.q][s + 1] = RingSlot(r, s)
        /\ \A j \in 1..r.pos[1] :
            j > r.pos[1] - r.qsize =>
                heap[r.q][((j - 1) % r.qsize) + 1] = r.values[1][j]

\* a drain step of g: the value yielded last came from slot i; the step
\* overwrites slot i alone, with the next upstream element, moves i to
\* (i + 1) mod qsize and yields what that slot holds
Drain(g) ==
    LET r == gen[g]
        t == gen'[g]
    IN  (r.kind = "queued" /\ r.pc = "yielded" /\ t.pc = "yielded") =>
            /\ r.out[Len(r.out)] = heap[r.q][r.i + 1]
            /\ t.q = r.q
            /\ heap'[r.q][r.i + 1] = r.values[1][r.pos[1] + 1]
            /\ \A s \in 1..r.qsize : s # r.i + 1 => heap'[r.q][s] = heap[r.q][s]
            /\ t.pos[1] = r.pos[1] + 1
            /\ t.i = (r.i + 1) % r.qsize
            /\ t.out = Append(r.out, heap'[r.q][t.i + 1])

\* C16: the ring invariant of queued holds in every state in which the
\* generator is suspended: the buffer holds exactly qsize elements, with
\* upstream element j in slot j mod qsize, and each drain step yields the
\* element at slot i, overwrites only slot i with the next upstream element
\* and advances i to (i + 1) mod qsize.
C16_RingInvariant ==
    [][/\ (\A g \in Ids : Ring(gen[g]))'
       /\ \A g \in Ids : Drain(g)]_vars

C16_Witness ==
    \E g \in Ids :
        /\ gen[g].kind = "queued" /\ gen[g].qsize = 2
        /\ gen[g].values[1] = Ramp(5)
        /\ gen[g].pc = "yielded"
        /\ gen[g].out = Ramp(3)
        /\ gen[g].i = 0
        /\ heap[gen[g].q] = <<I(3), I(4)>>

\* the input at which zip stops: the first of the shortest inputs
FirstShortest(vs) ==
    CHOOSE e \in 1..Len(vs) :
        /\ Len(vs[e]) = MinLen(vs)
        /\ \A j \in 1..(e - 1) : Len(vs[j]) > MinLen(vs)

\* within a pull the inputs are pulled in argument order, from the first
\* on; a value is yielded only after the last input gave an element, and
\* an exhausted input ends the pull with no value
PulledInOrder(r) ==
    \A x \in 1..Len(r.log) :
        /\ r.log[x].ev \in {"up", "end"} =>
            r.log[x - 1] = (IF r.log[x].n = 1 THEN Ev("next", 0)
                             ELSE Ev("up", r.log[x].n - 1))
        /\ r.log[x].ev = "yield" => r.log[x - 1] = Ev("up", Len(r.values))
        /\ r.log[x].ev = "end" => r.log[x + 1] = Ev("stop", 0)

\* C17: each step of a zipping combinator pulls its inputs in argument
\* order; in the step in which input j is the first found exhausted the
\* inputs before j have each given one more element, which is dropped, the
\* inputs after j are not pulled, and no output is produced.
C17_ZipPullsInArgumentOrder ==
    \A g \in Ids :
        LET r == gen[g]
            e == FirstShortest(r.values)
        IN  (r.kind \in Zipping /\ Len(r.values) >= 1 /\ Called(r)) =>
            /\ PulledInOrder(r)
            /\ r.pc # "done" =>
                \A j \in 1..Len(r.values) : r.pos[j] = Len(r.out)
            /\ r.pc = "done" =>
                /\ Len(r.out) = Len(r.values[e])
                /\ CountEv(r.log, "end", Len(r.log)) = 1
                /\ \E x \in 1..Len(r.log) : r.log[x] = Ev("end", e)
                /\ \A j \in 1..Len(r.values) :
                    r.pos[j] = (IF j < e THEN Len(r.out) + 1 ELSE Len(r.out))

C17_Witness ==
    \E g \in Ids :
        /\ gen[g].kind = "averaged"
        /\ gen[g].values = <<Ramp(5), Ramp(3)>>
        /\ gen[g].pc = "done"
        /\ gen[g].pos = <<4, 3>>
        /\ Len(gen[g].out) = 3

\* C18: in pre_delayed every pull that returns an element performs exactly
\* one delay, completed before the element is handed over; the number of
\* delays performed always equals the number of elements yielded, and a
\* pull that finds the upstream exhausted performs no delay.
C18_PreDelayedOneDelayPerElement ==
    \A g \in Ids :
        LET r == gen[g] IN
        (r.kind = "pre_delayed" /\ Called(r)) =>
            /\ r.slept = Len(r.out)
            /\ CountEv(r.log, "sleep", Len(r.log)) = Len(r.out)
            /\ \A x \in 1..Len(r.log) :
                /\ r.log[x].ev = "yield" =>
                    /\ r.log[x - 1] = Ev("sleep", 0)
                    /\ r.log[x - 2] = Ev("up", 1)
                    /\ r.log[x - 3] = Ev("next", 0)
                /\ r.log[x].ev = "sleep" => r.log[x + 1] = Ev("yield", 0)
                /\ r.log[x].ev = "end" =>
                    /\ r.log[x - 1] = Ev("next", 0)
                    /\ r.log[x + 1] = Ev("stop", 0)

C18_Witness ==
    \E g \in Ids :
        /\ gen[g].kind = "pre_delayed"
        /\ gen[g].delay = Fl(1, 2)
        /\ gen[g].values[1] = <<I(0), I(1)>>
        /\ gen[g].pc = "done"
        /\ gen[g].slept = 2
        /\ gen[g].out = <<I(0), I(1)>>

\* C19 (as claimed): in post_delayed no delay precedes the first element;
\* after each element is yielded the next pull first performs exactly one
\* delay and only then pulls from upstream again, the pull that discovers
\* exhaustion included, so between two consecutive upstream pulls there is
\* exactly one yield followed by exactly one delay.
C19_PostDelayedDelaysAfterYield ==
    \A g \in Ids :
        LET r == gen[g]
            firstPull == IF HasNext([r EXCEPT !.pos[1] = 0], 1)
                         THEN <<Ev("next", 0), Ev("up", 1), Ev("yield", 0)>>
                         ELSE <<Ev("next", 0), Ev("end", 1), Ev("stop", 0)>>
        IN  (r.kind = "post_delayed" /\ Called(r)) =>
            /\ r.npulls >= 1 => SubSeq(r.log, 1, 3) = firstPull
            /\ \A x \in 2..Len(r.log) :
                /\ (r.log[x].ev = "next" /\ r.log[x - 1].ev = "yield") =>
                    /\ r.log[x + 1] = Ev("sleep", 0)
                    /\ r.log[x + 2].ev \in {"up", "end"}
                /\ r.log[x].ev = "sleep" =>
                    /\ r.log[x - 1] = Ev("next", 0)
                    /\ r.log[x - 2] = Ev("yield", 0)
                /\ (r.log[x].ev = "up" /\ x > 2) => r.log[x - 1] = Ev("sleep", 0)
            /\ r.slept = CountEv(r.log, "up", Len(r.log))
                           - (IF r.pc = "yielded" THEN 1 ELSE 0)

\* C20: sin_values and cos_values never terminate and keep a phase that is
\* always in 0..359: a fresh instance starts at phase 0, the k-th pull
\* (k counted from 0) uses phase k mod 360, and the pull after phase 359
\* uses phase 0 again.
C20_WavePhaseWraps ==
    \A g \in Ids :
        LET r == gen[g] IN
        (r.kind \in Waves /\ Called(r)) =>
            /\ r.pc # "done"
            /\ r.npulls >= 1 => r.res = "yield"
            /\ r.i \in 0..359
            /\ r.i = r.npulls % 360
            /\ Len(r.out) = r.npulls
            /\ \A k \in 1..Len(r.out) :
                r.out[k] = Wave(IF r.kind = "sin_values" THEN "sin" ELSE "cos",
                                (k - 1) % 360)

C20_Witness ==
    \E g \in Ids :
        /\ gen[g].kind = "sin_values"
        /\ gen[g].npulls = 361
        /\ gen[g].i = 1
        /\ gen[g].out[1] = Wave("sin", 0)
        /\ gen[g].out[360] = Wave("sin", 359)
        /\ gen[g].out[361] = Wave("sin", 0)

====
